---- MODULE Spec2Model ----
(***************************************************************************)
(* Model of the table-extraction and field-normalisation pipeline of       *)
(* scrape_anime_adventures_by_section.py (extract_all_tables ->            *)
(* clean_and_format_data -> determine_categories ->                        *)
(* remove_duplicate_prefixes -> create_excel_report) and of parse_table of *)
(* scrape_anime_adventures_values.py.                                      *)
(*                                                                         *)
(* A text is a sequence of one-character strings, so that the regular      *)
(* expressions, html.escape, strip, lower and upper of the source are      *)
(* computed character by character.  A Python dict is a sequence of        *)
(* <<key, value>> pairs with distinct keys, in insertion order.            *)
(***************************************************************************)
EXTENDS Integers, Sequences, FiniteSets, TLC

VARIABLES doc, pc, all_data, origin, log, cleaned_data, categorized_data,
          final_data, report, result, csv_data

vars == <<doc, pc, all_data, origin, log, cleaned_data, categorized_data,
          final_data, report, result, csv_data>>

(***************************************************************************)
(* Characters and texts                                                    *)
(***************************************************************************)
UpperAlpha == <<"A","B","C","D","E","F","G","H","I","J","K","L","M",
                "N","O","P","Q","R","S","T","U","V","W","X","Y","Z">>

LowerAlpha == <<"a","b","c","d","e","f","g","h","i","j","k","l","m",
                "n","o","p","q","r","s","t","u","v","w","x","y","z">>

DigitChars == <<"0","1","2","3","4","5","6","7","8","9">>

Range(s) == {s[i] : i \in DOMAIN s}

\* \w of Python's re on the characters used here: letters, digits, underscore
WordChars == Range(UpperAlpha) \cup Range(LowerAlpha) \cup Range(DigitChars) \cup {"_"}

IsWord(c) == c \in WordChars

\* \s of Python's re, and the characters str.strip() removes
SpaceChars == {" ", "\t", "\n", "\r"}

IsSpace(c) == c \in SpaceChars

ToLower == [c \in Range(UpperAlpha) |->
              LowerAlpha[CHOOSE i \in DOMAIN UpperAlpha : UpperAlpha[i] = c]]

ToUpper == [c \in Range(LowerAlpha) |->
              UpperAlpha[CHOOSE i \in DOMAIN LowerAlpha : LowerAlpha[i] = c]]

LowerChar(c) == IF c \in DOMAIN ToLower THEN ToLower[c] ELSE c

UpperChar(c) == IF c \in DOMAIN ToUpper THEN ToUpper[c] ELSE c

\* str.lower()
Lower(s) == [i \in DOMAIN s |-> LowerChar(s[i])]

\* str.upper()
Upper(s) == [i \in DOMAIN s |-> UpperChar(s[i])]

\* t in s
Contains(s, t) ==
  \E i \in 1..(Len(s) - Len(t) + 1) : SubSeq(s, i, i + Len(t) - 1) = t

\* s[p:] of Python with the 1-based position p
From(s, p) == SubSeq(s, p, Len(s))

\* str.strip()
Strip(s) ==
  LET keep == {i \in DOMAIN s : ~IsSpace(s[i])}
  IN  IF keep = {} THEN <<>>
      ELSE SubSeq(s, CHOOSE i \in keep : \A j \in keep : i <= j,
                     CHOOSE i \in keep : \A j \in keep : j <= i)

RECURSIVE ToDec(_)
\* str(n) of a natural number, as in the f-strings "Table {i+1}" and "Column{n}"
ToDec(n) ==
  IF n < 10 THEN <<DigitChars[n + 1]>>
  ELSE ToDec(n \div 10) \o <<DigitChars[(n % 10) + 1]>>

RECURSIVE Concat(_)
\* "".join(parts)
Concat(parts) ==
  IF parts = <<>> THEN <<>>
  ELSE IF Len(parts) = 1 THEN parts[1]
  ELSE Concat(SubSeq(parts, 1, Len(parts) \div 2))
         \o Concat(SubSeq(parts, Len(parts) \div 2 + 1, Len(parts)))

(***************************************************************************)
(* Literal texts of the source                                             *)
(***************************************************************************)
sSection   == <<"S","e","c","t","i","o","n">>
sLowerSection == <<"s","e","c","t","i","o","n">>
sUnknown   == <<"U","n","k","n","o","w","n">>
sTablePfx  == <<"T","a","b","l","e"," ">>
sColumnPfx == <<"C","o","l","u","m","n">>
sCharacterName == <<"C","h","a","r","a","c","t","e","r"," ","N","a","m","e">>
sFileName  == <<"F","i","l","e"," ","N","a","m","e">>
sFileTok   == <<"F","i","l","e",":">>
sPngTok    == <<".","p","n","g">>
sRarity    == <<"R","a","r","i","t","y">>
sTier      == <<"T","i","e","r">>
sStatus    == <<"S","t","a","t","u","s">>
sValue     == <<"V","a","l","u","e">>
sQuantity  == <<"Q","u","a","n","t","i","t","y">>
sCategory  == <<"C","a","t","e","g","o","r","y">>
sTierSfx   == <<" ","T","i","e","r">>
sSecret    == <<"S","e","c","r","e","t">>
sStar      == <<"S","t","a","r">>
sRelic     == <<"r","e","l","i","c">>
sArtifact  == <<"a","r","t","i","f","a","c","t">>
sGamepass  == <<"g","a","m","e","p","a","s","s">>
sGamePass2 == <<"g","a","m","e"," ","p","a","s","s">>
sSecretUnits == <<"S","e","c","r","e","t"," ","U","n","i","t","s">>
sStarUnits == <<"S","t","a","r"," ","U","n","i","t","s">>
sRelics    == <<"R","e","l","i","c","s">>
sGamePassCat == <<"G","a","m","e"," ","P","a","s","s">>
sLegendary == <<"L","e","g","e","n","d","a","r","y">>
sEpic      == <<"E","p","i","c">>
sRare      == <<"R","a","r","e">>
sCommon    == <<"C","o","m","m","o","n">>
sStable    == <<"S","t","a","b","l","e">>
sLowerStable == <<"s","t","a","b","l","e">>
sShiny     == <<"S","h","i","n","y">>
sEllipsis  == <<".",".",".">>

(***************************************************************************)
(* Python dict: insertion-ordered, a later store to a key keeps its place  *)
(***************************************************************************)
Keys(d) == {d[i][1] : i \in DOMAIN d}

\* key in d
Has(d, k) == k \in Keys(d)

\* d.get(k, default)
Get(d, k, default) ==
  IF Has(d, k) THEN d[CHOOSE i \in DOMAIN d : d[i][1] = k][2] ELSE default

\* d[k] = v
Put(d, k, v) ==
  IF Has(d, k) THEN [i \in DOMAIN d |-> IF d[i][1] = k THEN <<k, v>> ELSE d[i]]
  ELSE Append(d, <<k, v>>)

(***************************************************************************)
(* sanitize_input and validate_data_row                                    *)
(***************************************************************************)
MaxInputLen == 1000

\* html.escape(text) with quote=True
EscapeChar(c) ==
  CASE c = "&"  -> <<"&","a","m","p",";">>
    [] c = "<"  -> <<"&","l","t",";">>
    [] c = ">"  -> <<"&","g","t",";">>
    [] c = "\"" -> <<"&","q","u","o","t",";">>
    [] c = "'"  -> <<"&","#","x","2","7",";">>
    [] OTHER    -> <<c>>

HtmlEscape(s) == Concat([i \in DOMAIN s |-> EscapeChar(s[i])])

\* re.sub(r'[<>"\']', '', text)
RemoveDangerous(s) == SelectSeq(s, LAMBDA c : c \notin {"<", ">", "\"", "'"})

\* sanitize_input without html.escape
sanitize_input_unescaped(text) ==
  LET escaped == RemoveDangerous(text)
      limited == IF Len(escaped) > MaxInputLen
                   THEN SubSeq(escaped, 1, MaxInputLen) \o sEllipsis
                   ELSE escaped
  IN  Strip(limited)

sanitize_input(text) ==
  LET escaped == RemoveDangerous(HtmlEscape(text))
      limited == IF Len(escaped) > MaxInputLen
                   THEN SubSeq(escaped, 1, MaxInputLen) \o sEllipsis
                   ELSE escaped
  IN  Strip(limited)

RECURSIVE validate_from_keep_empty(_, _)
\* validate_from without the test that skips empty entries
validate_from_keep_empty(row_data, validated_row) ==
  IF row_data = <<>> THEN validated_row
  ELSE validate_from_keep_empty(Tail(row_data),
         Put(validated_row, sanitize_input(Head(row_data)[1]),
                            sanitize_input(Head(row_data)[2])))

RECURSIVE validate_from(_, _)
validate_from(row_data, validated_row) ==
  IF row_data = <<>> THEN validated_row
  ELSE LET clean_key   == sanitize_input(Head(row_data)[1])
           clean_value == sanitize_input(Head(row_data)[2])
       IN  validate_from(Tail(row_data),
             IF clean_key # <<>> /\ clean_value # <<>>
               THEN Put(validated_row, clean_key, clean_value)
               ELSE validated_row)

validate_data_row(row_data) == validate_from(row_data, <<>>)

(***************************************************************************)
(* The parsed document, as BeautifulSoup presents it to the extractor.     *)
(*   doc.fandomTabs  get_text(strip=True) of each element selected by       *)
(*                   ".fandom-tabs-wrapper .fandom-tabs__tab"               *)
(*   doc.navTabs     the same for "[class*='tab-navigation'] [class*='tab']"*)
(*   doc.body        the headings (tag "h") and tables (tag "table") in     *)
(*                   document order; a heading carries its stripped text,   *)
(*                   a table its <tr> rows, each a sequence of cells        *)
(*   cell            text = get_text(strip=True); img, alt, src describe    *)
(*                   the first <img> of the cell, if any                    *)
(***************************************************************************)
Heading(text) == [tag |-> "h", text |-> text, rows |-> <<>>]

Table(rows) == [tag |-> "table", text |-> <<>>, rows |-> rows]

TextCell(text) == [text |-> text, img |-> FALSE, alt |-> <<>>, src |-> <<>>]

ImgCell(alt, src) == [text |-> <<>>, img |-> TRUE, alt |-> alt, src |-> src]

\* the increasing enumeration of a finite set of integers
SortedSeq(P) ==
  [k \in 1..Cardinality(P) |->
     CHOOSE p \in P : Cardinality({q \in P : q < p}) = k - 1]

\* soup.find_all("table"), as positions in doc.body
TablePositions(d) == SortedSeq({p \in DOMAIN d.body : d.body[p].tag = "table"})

\* soup.select(...) or soup.select(...), then get_text(strip=True) of each
tab_headings(d) == IF d.fandomTabs # <<>> THEN d.fandomTabs ELSE d.navTabs

\* table.find_previous(["h1", ..., "h6"]): position of the nearest heading
\* before position p, 0 when there is none
find_previous(d, p) ==
  LET H == {q \in 1..(p - 1) : d.body[q].tag = "h"}
  IN  IF H = {} THEN 0 ELSE CHOOSE q \in H : \A r \in H : r <= q

\* section_name with the tab heading taking precedence over the heading
section_name_tab_first(d, i) ==
  LET tabs == tab_headings(d)
      prev == find_previous(d, TablePositions(d)[i + 1])
  IN  IF i < Len(tabs) THEN tabs[i + 1]
      ELSE IF prev # 0 /\ d.body[prev].text # <<>> THEN d.body[prev].text
      ELSE sTablePfx \o ToDec(i + 1)

\* section_name of table number i (0-based, as enumerate(tables) counts)
section_name(d, i) ==
  LET tabs    == tab_headings(d)
      initial == IF i < Len(tabs) THEN tabs[i + 1] ELSE sTablePfx \o ToDec(i + 1)
      prev    == find_previous(d, TablePositions(d)[i + 1])
  IN  IF prev # 0 /\ d.body[prev].text # <<>> THEN d.body[prev].text ELSE initial

\* headers of a table from its first row
table_headers(rows) ==
  [j \in DOMAIN rows[1] |->
     IF rows[1][j].text = <<>> THEN sColumnPfx \o ToDec(j) ELSE rows[1][j].text]

\* src.split("/")[-1]
LastSegment(src) ==
  LET S == {p \in DOMAIN src : src[p] = "/"}
  IN  IF S = {} THEN src ELSE From(src, (CHOOSE p \in S : \A q \in S : q <= p) + 1)

\* the value read from one data cell
cell_value(cell) ==
  IF cell.img /\ cell.text = <<>>
    THEN IF cell.alt # <<>> THEN cell.alt ELSE LastSegment(cell.src)
    ELSE cell.text

RECURSIVE fill_row(_, _, _, _)
\* row_data[headers[j]] = value, for j in order
fill_row(headers, cells, j, row_data) ==
  IF j > Len(cells) THEN row_data
  ELSE fill_row(headers, cells, j + 1, Put(row_data, headers[j], cell_value(cells[j])))

\* the validated row built from one data row whose cell count matches
build_row(headers, cells, section) ==
  validate_data_row(Put(fill_row(headers, cells, 1, <<>>), sSection, section))

RECURSIVE table_data_fewer_cells(_, _, _, _, _)
\* table_data skipping only the rows with more cells than the header row
table_data_fewer_cells(rows, headers, section, i, idx) ==
  IF idx > Len(rows) - 1 THEN <<>>
  ELSE LET cells == rows[idx + 1]
           rest  == table_data_fewer_cells(rows, headers, section, i, idx + 1)
       IN  IF Len(cells) > Len(headers) THEN rest
           ELSE LET validated_row == build_row(headers, cells, section)
                IN  IF validated_row # <<>>
                      THEN <<[row |-> validated_row, table |-> i, idx |-> idx]>> \o rest
                      ELSE rest

RECURSIVE table_data(_, _, _, _, _)
\* table_data of table number i: the retained rows from row index idx onward,
\* each tagged with the table and the row it came from
table_data(rows, headers, section, i, idx) ==
  IF idx > Len(rows) - 1 THEN <<>>
  ELSE LET cells == rows[idx + 1]
           rest  == table_data(rows, headers, section, i, idx + 1)
       IN  IF Len(cells) # Len(headers) THEN rest
           ELSE LET validated_row == build_row(headers, cells, section)
                IN  IF validated_row # <<>>
                      THEN <<[row |-> validated_row, table |-> i, idx |-> idx]>> \o rest
                      ELSE rest

LogEntry(kind, i, idx, n, section, headers) ==
  [kind |-> kind, table |-> i, idx |-> idx, n |-> n, section |-> section,
   headers |-> headers]

\* what extract_all_tables prints for table number i
table_log(d, i) ==
  LET rows    == d.body[TablePositions(d)[i + 1]].rows
      section == section_name(d, i)
  IN  IF Len(rows) < 2 THEN <<LogEntry("skip_table", i, 0, 0, section, <<>>)>>
      ELSE LET headers == table_headers(rows)
               skipped == SortedSeq({idx \in 1..(Len(rows) - 1) :
                                       Len(rows[idx + 1]) # Len(headers)})
           IN  <<LogEntry("headers", i, 0, 0, section, headers)>>
               \o [k \in DOMAIN skipped |->
                     LogEntry("skip_row", i, skipped[k], 0, section, headers)]
               \o <<LogEntry("extracted", i, 0,
                             Len(table_data(rows, headers, section, i, 1)),
                             section, headers)>>

\* the rows extract_all_tables takes from table number i
table_rows(d, i) ==
  LET rows == d.body[TablePositions(d)[i + 1]].rows
  IN  IF Len(rows) < 2 THEN <<>>
      ELSE table_data(rows, table_headers(rows), section_name(d, i), i, 1)

extract_all_tables(d) ==
  LET n == Len(TablePositions(d))
  IN  [data |-> Concat([k \in 1..n |-> table_rows(d, k - 1)]),
       log  |-> Concat([k \in 1..n |-> table_log(d, k - 1)])]

(***************************************************************************)
(* parse_table and main of scrape_anime_adventures_values.py               *)
(***************************************************************************)
SECTIONS ==
  << <<"G","a","m","e","_","P","a","s","s">>, <<"S","k","i","n","s">>,
     <<"R","e","l","i","c","s">>, <<"S","t","a","t","s">>,
     <<"S","_","T","i","e","r">>, <<"A","_","T","i","e","r">>,
     <<"B","_","T","i","e","r">>, <<"C","_","T","i","e","r">> >>

RECURSIVE zip_dict(_, _, _, _)
\* dict(zip(headers, cols))
zip_dict(headers, cols, j, entry) ==
  IF j > Len(headers) \/ j > Len(cols) THEN entry
  ELSE zip_dict(headers, cols, j + 1, Put(entry, headers[j], cols[j]))

RECURSIVE parse_rows(_, _, _, _)
parse_rows(rows, headers, section, idx) ==
  IF idx > Len(rows) - 1 THEN <<>>
  ELSE LET cols == [j \in DOMAIN rows[idx + 1] |-> rows[idx + 1][j].text]
           rest == parse_rows(rows, headers, section, idx + 1)
       IN  IF Len(cols) # Len(headers) THEN rest
           ELSE <<[row   |-> Put(zip_dict(headers, cols, 1, <<>>), sLowerSection, section),
                   table |-> 0, idx |-> idx]>> \o rest

\* parse_table(table, section) for a table that has a first row
parse_table(rows, section) ==
  parse_rows(rows, [j \in DOMAIN rows[1] |-> rows[1][j].text], section, 1)

(***************************************************************************)
(* The regular expressions of the cleaner.  re.sub scans left to right,    *)
(* takes at each position the match the backtracking matcher finds first   *)
(* (the longest group 1 for which the rest matches), replaces it and goes  *)
(* on after it; a position with no match keeps its character.              *)
(***************************************************************************)
MaxOf(S) == CHOOSE x \in S : \A y \in S : y <= x

MinOf(S) == CHOOSE x \in S : \A y \in S : x <= y

\* s[p .. p+k-1] matches \w{k}
AllWord(s, p, k) == \A q \in p..(p + k - 1) : IsWord(s[q])

\* s[p .. p+k-1] is followed by a copy of itself (the backreference \1)
Rep(s, p, k) ==
  /\ p + 2 * k - 1 <= Len(s)
  /\ SubSeq(s, p, p + k - 1) = SubSeq(s, p + k, p + 2 * k - 1)

\* \b between the characters p-1 and p
WordBoundary(s, p) ==
  (p - 1 \in DOMAIN s /\ IsWord(s[p - 1])) # (p \in DOMAIN s /\ IsWord(s[p]))

\* group-1 lengths with which (\w+)\1 matches at p
DoubleAt(s, p) ==
  {k \in 1..((Len(s) - p + 1) \div 2) : AllWord(s, p, k) /\ Rep(s, p, k)}

RECURSIVE sub_double_from(_, _)
sub_double_from(s, p) ==
  IF p > Len(s) THEN <<>>
  ELSE IF DoubleAt(s, p) = {} THEN <<s[p]>> \o sub_double_from(s, p + 1)
  ELSE LET k == MaxOf(DoubleAt(s, p))
       IN  SubSeq(s, p, p + k - 1) \o sub_double_from(s, p + 2 * k)

\* re.sub(r"(\w+)\1", r"\1", value)
sub_double(value) == sub_double_from(value, 1)

\* group-1 lengths with which (\b\w+)(\1\b) matches at p
BoundedDoubleAt(s, p) ==
  {k \in DoubleAt(s, p) : WordBoundary(s, p) /\ WordBoundary(s, p + 2 * k)}

RECURSIVE sub_bounded_from(_, _)
sub_bounded_from(s, p) ==
  IF p > Len(s) THEN <<>>
  ELSE IF BoundedDoubleAt(s, p) = {} THEN <<s[p]>> \o sub_bounded_from(s, p + 1)
  ELSE LET k == MaxOf(BoundedDoubleAt(s, p))
       IN  SubSeq(s, p, p + k - 1) \o sub_bounded_from(s, p + 2 * k)

\* re.sub(r"(\b\w+)(\1\b)", r"\1", char_name)
sub_bounded(char_name) == sub_bounded_from(char_name, 1)

\* number of further copies \1+ takes after s[p .. p+k-1], greedily
Copies(s, p, k) ==
  MaxOf({r \in 0..(Len(s) \div k) :
           \A c \in 1..r : /\ p + (c + 1) * k - 1 <= Len(s)
                           /\ SubSeq(s, p + c * k, p + (c + 1) * k - 1)
                                = SubSeq(s, p, p + k - 1)})

RECURSIVE sub_repeat_from(_, _)
sub_repeat_from(s, p) ==
  IF p > Len(s) THEN <<>>
  ELSE IF DoubleAt(s, p) = {} THEN <<s[p]>> \o sub_repeat_from(s, p + 1)
  ELSE LET k == MaxOf(DoubleAt(s, p))
       IN  SubSeq(s, p, p + k - 1)
             \o sub_repeat_from(s, p + (1 + Copies(s, p, k)) * k)

\* re.sub(r"(\w+)\1+", r"\1", char_name)
sub_repeat(char_name) == sub_repeat_from(char_name, 1)

\* <<k, m>> with which (\b\w+)\s+\1\b matches at p: k word characters,
\* m whitespace characters, the k characters again, a word boundary
SpacedAt(s, p) ==
  {km \in (1..Len(s)) \X (1..Len(s)) :
     LET k == km[1]
         m == km[2]
     IN  /\ p + 2 * k + m - 1 <= Len(s)
         /\ WordBoundary(s, p)
         /\ AllWord(s, p, k)
         /\ \A q \in (p + k)..(p + k + m - 1) : IsSpace(s[q])
         /\ SubSeq(s, p + k + m, p + 2 * k + m - 1) = SubSeq(s, p, p + k - 1)
         /\ WordBoundary(s, p + 2 * k + m)}

RECURSIVE sub_spaced_from(_, _)
sub_spaced_from(s, p) ==
  IF p > Len(s) THEN <<>>
  ELSE IF SpacedAt(s, p) = {} THEN <<s[p]>> \o sub_spaced_from(s, p + 1)
  ELSE LET k == MaxOf({km[1] : km \in SpacedAt(s, p)})
           m == MaxOf({km[2] : km \in {x \in SpacedAt(s, p) : x[1] = k}})
       IN  SubSeq(s, p, p + k - 1) \o sub_spaced_from(s, p + 2 * k + m)

\* re.sub(r"(\b\w+)\s+\1\b", r"\1", char_name)
sub_spaced(char_name) == sub_spaced_from(char_name, 1)

RECURSIVE sub_shiny_from(_, _)
sub_shiny_from(s, p) ==
  IF p > Len(s) THEN <<>>
  ELSE IF p + 9 <= Len(s) /\ SubSeq(s, p, p + 9) = sShiny \o sShiny
    THEN sShiny \o sub_shiny_from(s, p + 10)
    ELSE <<s[p]>> \o sub_shiny_from(s, p + 1)

\* re.sub(r"ShinyShiny", "Shiny", char_name)
sub_shiny(char_name) == sub_shiny_from(char_name, 1)

\* "." of the pattern: any character but a line break
NoNewline(s, from, to) == \A q \in from..to : s[q] # "\n"

\* positions i of "File:" that the lazy prefix .*? can reach
FileAt(s) ==
  {i \in 1..(Len(s) - 4) :
     SubSeq(s, i, i + 4) = sFileTok /\ NoNewline(s, 1, i - 1)}

\* positions j of ".png" that the lazy group (.*?) can reach from "File:" at i
PngAt(s, i) ==
  {j \in (i + 5)..(Len(s) - 3) :
     SubSeq(s, j, j + 3) = sPngTok /\ NoNewline(s, i + 5, j - 1)}

\* re.match(r".*?File:(.*?)\.png(.*)", value): matched, and groups 1 and 2
file_match(value) ==
  LET I == {i \in FileAt(value) : PngAt(value, i) # {}}
  IN  IF I = {} THEN [matched |-> FALSE, file_name |-> <<>>, char_name |-> <<>>]
      ELSE LET i    == MinOf(I)
               j    == MinOf(PngAt(value, i))
               brk  == {q \in (j + 4)..Len(value) : value[q] = "\n"}
               last == IF brk = {} THEN Len(value) ELSE MinOf(brk) - 1
           IN  [matched   |-> TRUE,
                file_name |-> SubSeq(value, i + 5, j - 1),
                char_name |-> SubSeq(value, j + 4, last)]

(***************************************************************************)
(* clean_and_format_data                                                   *)
(***************************************************************************)
NameLabels == { <<"e">>, <<"d">>, <<"n","a","m","e">> }

LetterLabels == { <<c>> : c \in {"a","b","c","f","g","h","i","j","k","l","m","n","o"} }

\* clean_key comparing the label in lower case
clean_key_lower(key) ==
  IF Lower(key) \in LetterLabels
    THEN CASE Lower(key) \in { <<"f">>, <<"g">> }          -> sRarity
           [] Lower(key) \in { <<"h">>, <<"i">> }          -> sTier
           [] Lower(key) = <<"j">>                         -> sStatus
           [] Lower(key) \in { <<"l">>, <<"m">> }          -> sValue
           [] Lower(key) \in { <<"a">>, <<"b">>, <<"c">> } -> sQuantity
           [] OTHER                                        -> key
    ELSE key

\* the canonical field of a column that is not a name column
clean_key(key) ==
  IF key \in LetterLabels
    THEN CASE key \in { <<"f">>, <<"g">> }          -> sRarity
           [] key \in { <<"h">>, <<"i">> }          -> sTier
           [] key = <<"j">>                         -> sStatus
           [] key \in { <<"l">>, <<"m">> }          -> sValue
           [] key \in { <<"a">>, <<"b">>, <<"c">> } -> sQuantity
           [] OTHER                                 -> key
    ELSE key

\* clean_item without the fall-back of Character Name to the file name
clean_item_no_fallback(new_row, key, value) ==
  IF key = sSection THEN new_row
  ELSE IF Lower(key) \in NameLabels /\ Contains(value, sFileTok)
    THEN LET m == file_match(value)
         IN  IF m.matched
               THEN Put(Put(new_row, sFileName, Strip(m.file_name)),
                        sCharacterName, Strip(m.char_name))
               ELSE Put(new_row, key, value)
  ELSE IF Lower(key) \in NameLabels
    THEN Put(new_row, sCharacterName, sub_double(value))
  ELSE Put(new_row, clean_key(key), value)

\* one iteration of "for key, value in row.items()"
clean_item(new_row, key, value) ==
  IF key = sSection THEN new_row
  ELSE IF Lower(key) \in NameLabels /\ Contains(value, sFileTok)
    THEN LET m == file_match(value)
         IN  IF m.matched
               THEN Put(Put(new_row, sFileName, Strip(m.file_name)),
                        sCharacterName,
                        IF Strip(m.char_name) # <<>> THEN Strip(m.char_name)
                                                     ELSE Strip(m.file_name))
               ELSE Put(new_row, key, value)
  ELSE IF Lower(key) \in NameLabels
    THEN Put(new_row, sCharacterName, sub_double(value))
  ELSE Put(new_row, clean_key(key), value)

RECURSIVE clean_items(_, _)
clean_items(new_row, items) ==
  IF items = <<>> THEN new_row
  ELSE clean_items(clean_item(new_row, Head(items)[1], Head(items)[2]), Tail(items))

\* clean_row that copies Section only when the row has one
clean_row_without_default(row) ==
  LET new_row == clean_items(IF Has(row, sSection)
                               THEN << <<sSection, Get(row, sSection, sUnknown)>> >>
                               ELSE <<>>,
                             row)
  IN  IF Has(new_row, sCharacterName)
        THEN Put(new_row, sCharacterName, sub_bounded(Get(new_row, sCharacterName, <<>>)))
        ELSE new_row

\* the body of the loop of clean_and_format_data for one row
clean_row(row) ==
  LET new_row == clean_items(<< <<sSection, Get(row, sSection, sUnknown)>> >>, row)
  IN  IF Has(new_row, sCharacterName)
        THEN Put(new_row, sCharacterName, sub_bounded(Get(new_row, sCharacterName, <<>>)))
        ELSE new_row

\* clean_and_format_data leaving out the rows that carry nothing but Section
clean_and_format_data_skip_bare(data) ==
  SelectSeq([n \in DOMAIN data |-> clean_row(data[n])],
            LAMBDA new_row : Keys(new_row) # {sSection})

clean_and_format_data(data) == [n \in DOMAIN data |-> clean_row(data[n])]

(***************************************************************************)
(* determine_categories                                                    *)
(***************************************************************************)
TierNames == { <<"S">>, <<"A">>, <<"B">>, <<"C">>, <<"C","-">> }

\* category_of with the tier rule applied after the keyword rules
category_of_tier_last(row) ==
  LET character_name == Get(row, sCharacterName, <<>>)
      file_name      == Get(row, sFileName, <<>>)
      tier           == Upper(Get(row, sTier, <<>>))
      InName(keyword)      == Contains(character_name, keyword)
                                \/ Contains(file_name, keyword)
      InLowerName(keyword) == Contains(Lower(character_name), keyword)
                                \/ Contains(Lower(file_name), keyword)
  IN  IF tier \in TierNames THEN tier \o sTierSfx
      ELSE IF InName(sSecret) THEN sSecretUnits
      ELSE IF InName(sStar) THEN sStarUnits
      ELSE IF InLowerName(sRelic) \/ InLowerName(sArtifact) THEN sRelics
      ELSE IF InLowerName(sGamepass) \/ InLowerName(sGamePass2) THEN sGamePassCat
      ELSE Get(row, sSection, sUnknown)

\* the category of one cleaned row
category_of(row) ==
  LET character_name == Get(row, sCharacterName, <<>>)
      file_name      == Get(row, sFileName, <<>>)
      tier           == Upper(Get(row, sTier, <<>>))
      InName(keyword)      == Contains(character_name, keyword)
                                \/ Contains(file_name, keyword)
      InLowerName(keyword) == Contains(Lower(character_name), keyword)
                                \/ Contains(Lower(file_name), keyword)
      category == IF tier \in TierNames THEN tier \o sTierSfx
                  ELSE Get(row, sSection, sUnknown)
  IN  IF InName(sSecret) THEN sSecretUnits
      ELSE IF InName(sStar) THEN sStarUnits
      ELSE IF InLowerName(sRelic) \/ InLowerName(sArtifact) THEN sRelics
      ELSE IF InLowerName(sGamepass) \/ InLowerName(sGamePass2) THEN sGamePassCat
      ELSE category

\* with_rarity without the test that Rarity is not already set
with_rarity_overwrite(new_row, tier) ==
  IF tier = <<"S">> THEN Put(new_row, sRarity, sLegendary)
  ELSE IF tier = <<"A">> THEN Put(new_row, sRarity, sEpic)
  ELSE IF tier = <<"B">> THEN Put(new_row, sRarity, sRare)
  ELSE IF tier \in { <<"C">>, <<"C","-">> } THEN Put(new_row, sRarity, sCommon)
  ELSE new_row

\* "Try to determine rarity if not already set"
with_rarity(new_row, tier) ==
  IF Has(new_row, sRarity) THEN new_row
  ELSE IF tier = <<"S">> THEN Put(new_row, sRarity, sLegendary)
  ELSE IF tier = <<"A">> THEN Put(new_row, sRarity, sEpic)
  ELSE IF tier = <<"B">> THEN Put(new_row, sRarity, sRare)
  ELSE IF tier \in { <<"C">>, <<"C","-">> } THEN Put(new_row, sRarity, sCommon)
  ELSE new_row

\* "Set stability if not already there"
with_status(new_row, status) ==
  IF ~Has(new_row, sStatus) /\ Contains(status, sLowerStable)
    THEN Put(new_row, sStatus, sStable)
    ELSE new_row

\* the body of the loop of determine_categories for one row
categorize_row(row) ==
  LET tier   == Upper(Get(row, sTier, <<>>))
      status == Lower(Get(row, sStatus, <<>>))
  IN  Put(with_status(with_rarity(row, tier), status), sCategory, category_of(row))

determine_categories(data) == [n \in DOMAIN data |-> categorize_row(data[n])]

(***************************************************************************)
(* remove_duplicate_prefixes                                               *)
(***************************************************************************)
\* the three substitutions applied to one Character Name
dedupe_name(char_name) == sub_shiny(sub_spaced(sub_repeat(char_name)))

dedupe_row(row) ==
  IF Has(row, sCharacterName)
    THEN Put(row, sCharacterName, dedupe_name(Get(row, sCharacterName, <<>>)))
    ELSE row

remove_duplicate_prefixes(data) == [n \in DOMAIN data |-> dedupe_row(data[n])]

(***************************************************************************)
(* Input documents                                                         *)
(***************************************************************************)
MaxCols   == 2    \* cells per table row
MaxRows   == 2    \* data rows per table
MaxBody   == 3    \* headings and tables per document
MaxTabs   == 2    \* tab elements per document
MaxPieces == 5    \* pieces per name cell

\* all sequences over S of length at most n
SeqsUpTo(S, n) == UNION {[1..k -> S] : k \in 0..n}

Doc(fandomTabs, navTabs, body) ==
  [fandomTabs |-> fandomTabs, navTabs |-> navTabs, body |-> body]

tK      == <<"k">>
tX      == <<"x">>
tTabT   == <<"T","a","b">>
tHeadH  == <<"H","e","a","d">>
tSTier  == <<"S"," ","T","i","e","r">>
tName   == <<"N","a","m","e">>
tGoku   == <<"G","o","k","u">>
tLuffy  == <<"L","u","f","f","y">>
tNaruto == <<"N","a","r","u","t","o">>
tJpgTok == <<".","j","p","g">>

\* header rows of every length: the same label in every column, no text in
\* any column, or "Section" followed by the same label
HeaderRows ==
  { [j \in 1..n |-> TextCell(labels[IF j = 1 THEN 1 ELSE 2])] :
      n \in 0..MaxCols, labels \in { <<tK, tK>>, <<<<>>, <<>>>>, <<sSection, tK>> } }

\* data rows of every length: no text in any cell, text in every cell, or
\* text in the first cell only
CellRows ==
  { [j \in 1..n |-> TextCell(texts[IF j = 1 THEN 1 ELSE 2])] :
      n \in 0..MaxCols, texts \in { <<<<>>, <<>>>>, <<tX, tX>>, <<tX, <<>>>> } }

\* one table whose rows differ in cell count, cell text and header labels,
\* with and without a non-empty section label
RowTables ==
  { Table(<<header>> \o rows) :
      header \in HeaderRows, rows \in SeqsUpTo(CellRows, MaxRows) }

RowDocs ==
  { Doc(tabs, <<>>, <<table>>) : tabs \in { <<>>, << <<>> >> }, table \in RowTables }

\* headings and tables in any order, with and without tab elements
SimpleTable == Table(<< <<TextCell(tK)>>, <<TextCell(tX)>> >>)

HeaderOnlyTable == Table(<< <<TextCell(tK)>> >>)

\* the texts "Tab1", "Tab2", ... of n tab elements
TabRow(n) == [k \in 1..n |-> tTabT \o ToDec(k)]

SectionDocs ==
  { Doc(TabRow(nFandom), TabRow(nNav), body) :
      nFandom \in 0..MaxTabs,
      nNav    \in {0, 1},
      body    \in SeqsUpTo({Heading(<<>>), Heading(tHeadH), SimpleTable,
                            HeaderOnlyTable}, MaxBody) }

\* one name cell under a name label
NamePieces == { <<"a">>, <<" ">>, sFileTok, sPngTok }

PieceTexts == { Concat(pieces) : pieces \in SeqsUpTo(NamePieces, MaxPieces) }

ExtraNames ==
  { tGoku, tLuffy, tNaruto \o tNaruto, sShiny \o sShiny \o <<" ">> \o tGoku,
    sFileTok \o tNaruto \o sPngTok \o tNaruto \o tNaruto,
    sFileTok \o tNaruto \o tJpgTok \o tNaruto,
    sFileTok \o tNaruto \o sPngTok,
    <<"a","a","b">>, <<"a","\n","a">>, tGoku \o <<" ">> \o tGoku,
    <<"S","t","a","a","a","r">> }

\* get_text(strip=True) has no surrounding whitespace
NameTexts == { t \in PieceTexts \cup ExtraNames : Strip(t) = t }

NameDocs ==
  { Doc(<<>>, <<>>,
        << Heading(tSTier),
           Table(<< <<TextCell(label)>>, <<TextCell(text)>> >>) >>) :
      label \in { <<"e">>, tName }, text \in NameTexts }

\* Scenario A of the specification
ScenarioA ==
  Doc(<<>>, <<>>,
      << Heading(tSTier),
         Table(<< <<TextCell(tName), TextCell(sValue)>>,
                  <<TextCell(tGoku), TextCell(<<"1","0","0">>)>>,
                  <<TextCell(tLuffy), TextCell(<<"5","0">>)>> >>) >>)

\* an image in a name cell, with and without alt text
ImageDocs ==
  { Doc(<<>>, <<>>, << Table(<< <<TextCell(<<"e">>)>>, <<cell>> >>) >>) :
      cell \in { ImgCell(tGoku, <<"i","/","g",".","p","n","g">>),
                 ImgCell(<<>>, <<"i","/","g",".","p","n","g">>),
                 ImgCell(<<" ">>, <<"g">>) } }

\* a table without any row
NoRowDoc == Doc(<<>>, <<>>, << Table(<<>>) >>)

\* rows for the classifier: name, tier, rarity and status columns
ClassNames ==
  { <<>>, tGoku, sSecret \o <<" ">> \o sStar, sStar \o <<" ">> \o sRelic,
    Lower(sSecret), <<"R","E","L","I","C">>,
    <<"A","r","t","i","f","a","c","t">> \o <<" ">> \o sGamepass,
    sGamePassCat, <<"G","a","m","e","p","a","s","s">>,
    sFileTok \o sSecret \o sPngTok \o tGoku,
    sFileTok \o sStar \o sPngTok \o sRelic }

TierTexts ==
  { <<>>, <<"S">>, <<"s">>, <<"A">>, <<"a">>, <<"B">>, <<"b">>, <<"C">>,
    <<"C","-">>, <<"c","-">>, <<"D">>, <<"S","S">> }

RarityTexts == { <<>>, <<"M","y","t","h","i","c">> }

StatusTexts == { <<>>, sStable, <<"U","n","s","t","a","b","l","e">> }

ClassDocs ==
  { Doc(<<>>, <<>>,
        << Heading(tHeadH),
           Table(<< <<TextCell(<<"e">>), TextCell(<<"h">>), TextCell(<<"f">>),
                      TextCell(statusLabel)>>,
                    <<TextCell(name), TextCell(tier), TextCell(rarity),
                      TextCell(status)>> >>) >>) :
      name \in ClassNames, tier \in TierTexts, rarity \in RarityTexts,
      statusLabel \in { <<"j">>, Lower(sStatus) }, status \in StatusTexts }

\* one column under every single-letter label, upper-case variants, the
\* name labels in several cases and labels that are already field names
HeaderLabels ==
  LetterLabels
    \cup { <<"d">>, <<"e">>, <<"D">>, <<"E">>, <<"A">>, <<"F">>, <<"H">>,
           <<"J">>, <<"L">>, <<"K">>, tName, Lower(tName), Upper(tName),
           sTier, sRarity, <<"x","1">> }

LabelValues ==
  { tX, sFileTok \o <<"a">> \o sPngTok \o <<"b">>, sFileTok \o <<"a">> }

LabelDocs ==
  { Doc(<<>>, <<>>,
        << Heading(tHeadH),
           Table(<< <<TextCell(label)>>, <<TextCell(value)>> >>) >>) :
      label \in HeaderLabels, value \in LabelValues }

\* tables with columns labelled "Section" and "Category", with and without
\* cell text, under a heading, a tab element without text, or neither
FieldLabels == { sSection, sCategory, tK }

FieldDocs ==
  { Doc(tabs, <<>>,
        heading \o << Table(<< <<TextCell(label1), TextCell(label2)>>,
                               <<TextCell(text1), TextCell(text2)>> >>) >>) :
      tabs \in { <<>>, << <<>> >> },
      heading \in { <<>>, <<Heading(tHeadH)>> },
      label1 \in FieldLabels, label2 \in FieldLabels,
      text1 \in { <<>>, tX }, text2 \in { <<>>, tGoku } }

\* n times the character "a"
LongText(n) == [i \in 1..n |-> "a"]

\* cell texts with the characters html.escape rewrites, and texts around the
\* length limit
CellTexts ==
  { tX, <<"a","&","b">>, <<"<","b",">">>, <<"i","t","'","s">>,
    <<"\"","q","\"">>, <<"a"," ","a">> }

LongTexts ==
  { LongText(MaxInputLen), LongText(MaxInputLen + 1),
    LongText(MaxInputLen - 1) \o <<"&">> }

CellLabels == { tK, <<"h">>, <<"F">>, tName, sCharacterName, sCategory }

CellDocs ==
  { Doc(<<>>, <<>>,
        << Heading(tHeadH),
           Table(<< <<TextCell(label)>>, <<TextCell(text)>> >>) >>) :
      label \in CellLabels, text \in CellTexts }
    \cup { Doc(<<>>, <<>>,
               << Table(<< <<TextCell(label)>>, <<TextCell(text)>> >>) >>) :
             label \in { tK, <<"h">> }, text \in LongTexts }

(***************************************************************************)
(* One run of one of the two scripts over the document: pc = "extract"     *)
(* starts main of scrape_anime_adventures_by_section.py (one action per    *)
(* call it makes), pc = "csv" main of scrape_anime_adventures_values.py.   *)
(***************************************************************************)
InitWith(docs) ==
  /\ doc \in docs
  /\ pc \in {"extract", "csv"}
  /\ all_data = <<>>
  /\ origin = <<>>
  /\ log = <<>>
  /\ cleaned_data = <<>>
  /\ categorized_data = <<>>
  /\ final_data = <<>>
  /\ report = <<>>
  /\ result = "running"
  /\ csv_data = [state |-> "start", rows |-> <<>>]

\* all_data = extract_all_tables(html)
ExtractAllTables ==
  /\ pc = "extract"
  /\ LET r == extract_all_tables(doc)
     IN  /\ all_data' = [n \in DOMAIN r.data |-> r.data[n].row]
         /\ origin' = [n \in DOMAIN r.data |->
                         [table |-> r.data[n].table, idx |-> r.data[n].idx]]
         /\ log' = r.log
  /\ pc' = "clean"
  /\ UNCHANGED <<doc, cleaned_data, categorized_data, final_data, report,
                 result, csv_data>>

\* NoDataExtracted ending the run as soon as a table or a row was skipped
NoDataExtracted_on_skip ==
  /\ pc = "clean"
  /\ \/ all_data = <<>>
     \/ \E k \in DOMAIN log : log[k].kind \in {"skip_table", "skip_row"}
  /\ result' = "False"
  /\ pc' = "done"
  /\ UNCHANGED <<doc, all_data, origin, log, cleaned_data, categorized_data,
                 final_data, report, csv_data>>

\* if not all_data: ... return False
NoDataExtracted ==
  /\ pc = "clean"
  /\ all_data = <<>>
  /\ result' = "False"
  /\ pc' = "done"
  /\ UNCHANGED <<doc, all_data, origin, log, cleaned_data, categorized_data,
                 final_data, report, csv_data>>

\* cleaned_data = clean_and_format_data(all_data)
CleanAndFormatData ==
  /\ pc = "clean"
  /\ all_data # <<>>
  /\ cleaned_data' = clean_and_format_data(all_data)
  /\ pc' = "categorize"
  /\ UNCHANGED <<doc, all_data, origin, log, categorized_data, final_data,
                 report, result, csv_data>>

\* categorized_data = determine_categories(cleaned_data)
DetermineCategories ==
  /\ pc = "categorize"
  /\ categorized_data' = determine_categories(cleaned_data)
  /\ pc' = "dedupe"
  /\ UNCHANGED <<doc, all_data, origin, log, cleaned_data, final_data,
                 report, result, csv_data>>

\* final_data = remove_duplicate_prefixes(categorized_data): the rows are
\* changed in place and the same list is returned
RemoveDuplicatePrefixes ==
  /\ pc = "dedupe"
  /\ final_data' = remove_duplicate_prefixes(categorized_data)
  /\ categorized_data' = final_data'
  /\ pc' = "report"
  /\ UNCHANGED <<doc, all_data, origin, log, cleaned_data, report, result,
                 csv_data>>

\* success = create_excel_report(final_data, output_excel), report written
CreateExcelReport ==
  /\ pc = "report"
  /\ report' = final_data
  /\ result' = "True"
  /\ pc' = "done"
  /\ UNCHANGED <<doc, all_data, origin, log, cleaned_data, categorized_data,
                 final_data, csv_data>>

\* create_excel_report raises in the spreadsheet library; main returns False
CreateExcelReportFails ==
  /\ pc = "report"
  /\ result' = "False"
  /\ pc' = "done"
  /\ UNCHANGED <<doc, all_data, origin, log, cleaned_data, categorized_data,
                 final_data, report, csv_data>>

(***************************************************************************)
(* main of scrape_anime_adventures_values.py: the table fetched for        *)
(* SECTIONS[k] is the k-th table of the document                           *)
(***************************************************************************)
FetchedTables(d) ==
  LET pos == TablePositions(d)
      n   == IF Len(pos) < Len(SECTIONS) THEN Len(pos) ELSE Len(SECTIONS)
  IN  [k \in 1..n |-> d.body[pos[k]].rows]

csv_main(d) ==
  LET tables == FetchedTables(d)
  IN  IF \E k \in DOMAIN tables : tables[k] = <<>>
        THEN [state |-> "IndexError", rows |-> <<>>]
        ELSE LET all == Concat([k \in DOMAIN tables |->
                                  LET parsed == parse_table(tables[k], SECTIONS[k])
                                  IN  [n \in DOMAIN parsed |->
                                         [parsed[n] EXCEPT !.table = k - 1]]])
             IN  IF all = <<>> THEN [state |-> "exit", rows |-> <<>>]
                 ELSE [state |-> "written", rows |-> all]

CsvMain ==
  /\ pc = "csv"
  /\ csv_data' = csv_main(doc)
  /\ pc' = "done"
  /\ UNCHANGED <<doc, all_data, origin, log, cleaned_data,
                 categorized_data, final_data, report, result>>

Next ==
  \/ ExtractAllTables
  \/ NoDataExtracted
  \/ CleanAndFormatData
  \/ DetermineCategories
  \/ RemoveDuplicatePrefixes
  \/ CreateExcelReport
  \/ CreateExcelReportFails
  \/ CsvMain

InitRows == InitWith(RowDocs)

InitSections == InitWith(SectionDocs)

InitNames == InitWith(NameDocs \cup ImageDocs \cup {ScenarioA, NoRowDoc})

InitClassify == InitWith(ClassDocs \cup {NoRowDoc})

Init == InitWith(RowDocs \cup SectionDocs \cup NameDocs \cup ImageDocs
                   \cup ClassDocs \cup {ScenarioA, NoRowDoc})

Spec == Init /\ [][Next]_vars

\* documents with no table, with skipped tables and with skipped rows
InitRuns == InitWith(RowDocs \cup SectionDocs \cup {NoRowDoc})

SpecRuns == InitRuns /\ [][Next]_vars

InitFields == InitWith(FieldDocs \cup {NoRowDoc})

SpecFields == InitFields /\ [][Next]_vars

InitCells == InitWith(CellDocs \cup {NoRowDoc})

SpecCells == InitCells /\ [][Next]_vars

InitLabels == InitWith(LabelDocs \cup {NoRowDoc})

SpecLabels == InitLabels /\ [][Next]_vars

SpecRows == InitRows /\ [][Next]_vars

SpecSections == InitSections /\ [][Next]_vars

SpecNames == InitNames /\ [][Next]_vars

SpecClassify == InitClassify /\ [][Next]_vars

(***************************************************************************)
(* Vocabulary of the properties                                            *)
(***************************************************************************)
\* the spreadsheet script has run extract_all_tables over doc
Extracted == pc \in {"clean", "categorize", "dedupe", "report", "done"}
               /\ csv_data.state = "start"

\* the spreadsheet script has run clean_and_format_data
Cleaned == Extracted /\ pc \in {"categorize", "dedupe", "report", "done"}
             /\ all_data # <<>>

\* the spreadsheet script has run determine_categories
Categorized == Cleaned /\ pc \in {"dedupe", "report", "done"}

\* the spreadsheet script has run remove_duplicate_prefixes
Deduped == Cleaned /\ pc \in {"report", "done"}

\* the <tr> rows of table number i (0-based) of doc
RowsOf(i) == doc.body[TablePositions(doc)[i + 1]].rows

TableNumbers == 0..(Len(TablePositions(doc)) - 1)

\* the row indexes of the data rows of table number i, as enumerate(rows[1:], 1)
DataRows(i) == 1..(Len(RowsOf(i)) - 1)

\* data row idx of table i has as many cells as the header row
CountMatches(i, idx) == Len(RowsOf(i)[idx + 1]) = Len(RowsOf(i)[1])

\* data row idx of table i is among the rows the extractor returned
Retained(i, idx) ==
  \E n \in DOMAIN origin : origin[n].table = i /\ origin[n].idx = idx

\* data row idx of table i is among the rows parse_table returned
CsvRetained(i, idx) ==
  \E n \in DOMAIN csv_data.rows :
     csv_data.rows[n].table = i /\ csv_data.rows[n].idx = idx

\* column j is the last one of the header row with its label
LastWithLabel(headers, j) ==
  \A j2 \in (j + 1)..Len(headers) : headers[j2] # headers[j]

\* the entries validate_data_row keeps of a data row, besides Section: for
\* each header label other than "Section", the sanitised label with the
\* sanitised text of the last cell under it, when that text is not empty
KeptEntries(i, idx) ==
  LET headers == table_headers(RowsOf(i))
      cells   == RowsOf(i)[idx + 1]
  IN  { <<sanitize_input(headers[j]), sanitize_input(cell_value(cells[j]))>> :
          j \in { c \in DOMAIN headers :
                    /\ headers[c] # sSection
                    /\ LastWithLabel(headers, c)
                    /\ sanitize_input(cell_value(cells[c])) # <<>> } }

\* the section label the extractor printed for table number i
PrintedSection(i) ==
  log[CHOOSE n \in DOMAIN log : log[n].table = i].section

\* the heading element nearest before table number i, 0 when there is none
NearestHeading(i) ==
  LET p == TablePositions(doc)[i + 1]
      H == {q \in 1..(p - 1) : doc.body[q].tag = "h"}
  IN  IF H = {} THEN 0 ELSE MaxOf(H)

HasHeading(i) == NearestHeading(i) # 0 /\ doc.body[NearestHeading(i)].text # <<>>

HeadingText(i) == doc.body[NearestHeading(i)].text

\* the tab elements the extractor selects
TabTexts == IF doc.fandomTabs # <<>> THEN doc.fandomTabs ELSE doc.navTabs

HasTab(i) == i < Len(TabTexts)

Positional(i) == sTablePfx \o ToDec(i + 1)

(***************************************************************************)
(* C1  Row acceptance rule.                                                *)
(***************************************************************************)
\* C1 as stated: in both scripts a data row is emitted if and only if its
\* cell count equals the header row's cell count.
C1_EmittedIffCountMatches ==
  /\ Extracted =>
       \A i \in TableNumbers : \A idx \in DataRows(i) :
          Retained(i, idx) <=> CountMatches(i, idx)
  /\ csv_data.state \in {"written", "exit"} =>
       \A i \in DOMAIN FetchedTables(doc) : \A idx \in DataRows(i - 1) :
          CsvRetained(i - 1, idx) <=> CountMatches(i - 1, idx)

\* C1 amended: parse_table emits a data row iff its cell count equals the
\* header count; extract_all_tables emits it iff the count matches and the
\* validated row is not empty (the sanitised Section label or some kept cell
\* text is non-empty); a row with another count is reported as skipped and
\* the extraction goes on with the rows after it.
C1_EmittedIffCountMatchesAndNotEmpty ==
  /\ Extracted =>
       \A i \in TableNumbers : \A idx \in DataRows(i) :
          /\ Retained(i, idx) <=>
               /\ CountMatches(i, idx)
               /\ \/ sanitize_input(PrintedSection(i)) # <<>>
                  \/ KeptEntries(i, idx) # {}
          /\ ~CountMatches(i, idx) <=>
               \E n \in DOMAIN log : /\ log[n].kind = "skip_row"
                                     /\ log[n].table = i
                                     /\ log[n].idx = idx
  /\ csv_data.state \in {"written", "exit"} =>
       \A i \in DOMAIN FetchedTables(doc) : \A idx \in DataRows(i - 1) :
          CsvRetained(i - 1, idx) <=> CountMatches(i - 1, idx)

\* C1 witness: a table with a dropped mismatching row followed by a retained
\* matching row
C1_Witness ==
  /\ Extracted
  /\ \E i \in TableNumbers : \E idx1, idx2 \in DataRows(i) :
        /\ idx1 < idx2
        /\ ~CountMatches(i, idx1) /\ ~Retained(i, idx1)
        /\ CountMatches(i, idx2) /\ Retained(i, idx2)

(***************************************************************************)
(* C2  Shape of a retained row.                                            *)
(***************************************************************************)
\* C2 as stated: every retained row holds exactly one entry per header cell
\* of its table (besides Section).
C2_OneEntryPerHeaderCell ==
  Extracted =>
    \A n \in DOMAIN all_data :
       Cardinality(Keys(all_data[n]) \ {sSection})
         = Len(table_headers(RowsOf(origin[n].table)))

\* C2 amended: every retained row was read from a table row with exactly
\* len(headers) cells, and its mapping holds, besides Section, one entry for
\* each distinct header label (other than "Section") whose last cell has
\* non-empty sanitised text and no other entry: at most, not exactly, one
\* per header cell.
C2_CellCountAndKeptEntries ==
  Extracted =>
    \A n \in DOMAIN all_data :
       LET i   == origin[n].table
           idx == origin[n].idx
       IN  /\ Len(RowsOf(i)[idx + 1]) = Len(table_headers(RowsOf(i)))
           /\ { all_data[n][e] : e \in { x \in DOMAIN all_data[n] :
                                           all_data[n][x][1] # sSection } }
                = KeptEntries(i, idx)
           /\ Cardinality(Keys(all_data[n]) \ {sSection})
                <= Len(table_headers(RowsOf(i)))

\* C2 witness: a retained row with fewer entries than header cells, read
\* from a row with an empty cell under a repeated header label
C2_Witness ==
  /\ Extracted
  /\ \E n \in DOMAIN all_data :
        LET headers == table_headers(RowsOf(origin[n].table))
        IN  /\ Len(headers) = 2
            /\ headers[1] = headers[2]
            /\ Cardinality(Keys(all_data[n]) \ {sSection}) = 1

(***************************************************************************)
(* C3  Section label precedence.                                           *)
(***************************************************************************)
\* C3 as stated: tab marker first, else nearest preceding heading, else
\* "Table <index>".
C3_TabThenHeadingThenPosition ==
  Extracted =>
    \A i \in TableNumbers :
       PrintedSection(i) = IF HasTab(i) THEN TabTexts[i + 1]
                           ELSE IF HasHeading(i) THEN HeadingText(i)
                           ELSE Positional(i)

\* C3 amended: the non-empty text of the nearest preceding heading first,
\* else the tab text at the table's index, else "Table <index>"; a table
\* with both a tab text and a non-empty preceding heading gets the heading.
C3_HeadingThenTabThenPosition ==
  Extracted =>
    \A i \in TableNumbers :
       /\ PrintedSection(i) = IF HasHeading(i) THEN HeadingText(i)
                              ELSE IF HasTab(i) THEN TabTexts[i + 1]
                              ELSE Positional(i)
       /\ \A n \in DOMAIN all_data :
             origin[n].table = i /\ Has(all_data[n], sSection) =>
               Get(all_data[n], sSection, <<>>) = sanitize_input(PrintedSection(i))

\* C3 witness: a table with a tab text and a different non-empty preceding
\* heading, whose rows carry the heading
C3_Witness ==
  /\ Extracted
  /\ \E n \in DOMAIN all_data :
        LET i == origin[n].table
        IN  /\ HasTab(i) /\ HasHeading(i)
            /\ TabTexts[i + 1] # HeadingText(i)
            /\ Get(all_data[n], sSection, <<>>) = HeadingText(i)

(***************************************************************************)
(* C4  Classifier precedence.                                              *)
(***************************************************************************)
\* the keyword rules in the order they are tried
KeywordRules ==
  << [keywords |-> {sSecret},               anyCase |-> FALSE, category |-> sSecretUnits],
     [keywords |-> {sStar},                 anyCase |-> FALSE, category |-> sStarUnits],
     [keywords |-> {sRelic, sArtifact},     anyCase |-> TRUE,  category |-> sRelics],
     [keywords |-> {sGamepass, sGamePass2}, anyCase |-> TRUE,  category |-> sGamePassCat] >>

RuleMatches(rule, row) ==
  \E keyword \in rule.keywords :
     \E field \in {Get(row, sCharacterName, <<>>), Get(row, sFileName, <<>>)} :
        Contains(IF rule.anyCase THEN Lower(field) ELSE field, keyword)

MatchingRules(row) == {r \in DOMAIN KeywordRules : RuleMatches(KeywordRules[r], row)}

\* the Tier of a row, upper-cased, is one of S, A, B, C, C-
HasKnownTier(row) == Upper(Get(row, sTier, <<>>)) \in TierNames

collapse(value) == sub_bounded(sub_double(value))

\* C5 as stated: applying the repair of remove_duplicate_prefixes to a
\* Character Name it has produced changes nothing, and so does applying the
\* collapse of clean_and_format_data to a plain name it has produced.
C5_CollapseIdempotent ==
  /\ Deduped =>
       \A n \in DOMAIN final_data :
          Has(final_data[n], sCharacterName) =>
            dedupe_name(Get(final_data[n], sCharacterName, <<>>))
              = Get(final_data[n], sCharacterName, <<>>)
  /\ Cleaned =>
       \A n \in DOMAIN cleaned_data :
          Has(cleaned_data[n], sCharacterName) /\ ~Has(cleaned_data[n], sFileName) =>
            collapse(Get(cleaned_data[n], sCharacterName, <<>>))
              = Get(cleaned_data[n], sCharacterName, <<>>)

(***************************************************************************)
(* C6  File-token split.                                                   *)
(***************************************************************************)
\* first position from `from` on at which t occurs in s, 0 when there is none
FirstAt(s, t, from) ==
  LET P == {i \in from..(Len(s) - Len(t) + 1) : SubSeq(s, i, i + Len(t) - 1) = t}
  IN  IF P = {} THEN 0 ELSE MinOf(P)

\* "File:", a non-empty name portion, ".", an extension
HasFileToken(v) ==
  \E i \in DOMAIN v : \E j \in DOMAIN v :
     /\ i + 4 <= Len(v) /\ SubSeq(v, i, i + 4) = sFileTok
     /\ j > i + 5
     /\ v[j] = "."
     /\ j + 1 \in DOMAIN v /\ IsWord(v[j + 1])

\* the name cells of retained row n: the entries under a label that is, in
\* lower case, e, d or name
NameCells(n) ==
  {e \in DOMAIN all_data[n] : Lower(all_data[n][e][1]) \in NameLabels}

\* C6 as stated: whenever a name cell holds a file token, of any extension
\* and name portion, the cleaned row has a File Name and a non-empty
\* Character Name.
C6_FileTokenGivesName ==
  Cleaned =>
    \A n \in DOMAIN all_data : \A e \in NameCells(n) :
       HasFileToken(all_data[n][e][2]) =>
         /\ Has(cleaned_data[n], sFileName)
         /\ Has(cleaned_data[n], sCharacterName)
         /\ Get(cleaned_data[n], sCharacterName, <<>>) # <<>>

\* C6 amended: only a "File:<name>.png" token is recognised.  For a name cell
\* with "File:" and a later ".png", File Name is the stripped text between
\* the first "File:" and the first ".png" after it, and Character Name is
\* the stripped text after that ".png" if it is not empty, else the File
\* Name, with an immediately doubled whole word collapsed; Character Name is
\* non-empty whenever the name portion or the trailing text has a non-blank
\* character.  A name cell with "File:" but no later ".png" is copied under
\* its raw label and gives neither File Name nor Character Name.
C6_PngTokenSplit ==
  Cleaned =>
    \A n \in DOMAIN all_data : \A e \in NameCells(n) :
       LET k     == all_data[n][e][1]
           v     == all_data[n][e][2]
           i     == FirstAt(v, sFileTok, 1)
           j     == IF i = 0 THEN 0 ELSE FirstAt(v, sPngTok, i + 5)
           name  == Strip(SubSeq(v, i + 5, j - 1))
           trail == Strip(From(v, j + 4))
           row   == cleaned_data[n]
       IN  /\ j # 0 =>
                /\ Get(row, sFileName, <<>>) = name /\ Has(row, sFileName)
                /\ Has(row, sCharacterName)
                /\ Get(row, sCharacterName, <<>>)
                     = sub_bounded(IF trail # <<>> THEN trail ELSE name)
                /\ (name # <<>> \/ trail # <<>>) =>
                     Get(row, sCharacterName, <<>>) # <<>>
           /\ i # 0 /\ j = 0 =>
                /\ ~Has(row, sFileName)
                /\ ~Has(row, sCharacterName)
                /\ Get(row, k, <<>>) = v

\* C6 witness: a cleaned row split from "File:<name>.png" with no trailing
\* text, whose Character Name is the non-empty name portion
C6_Witness ==
  /\ Cleaned
  /\ \E n \in DOMAIN all_data : \E e \in NameCells(n) :
        LET v == all_data[n][e][2]
        IN  /\ FirstAt(v, sFileTok, 1) = 1
            /\ FirstAt(v, sPngTok, 6) = Len(v) - 3
            /\ Len(v) > 9
            /\ Get(cleaned_data[n], sFileName, <<>>) = SubSeq(v, 6, Len(v) - 4)
            /\ Get(cleaned_data[n], sCharacterName, <<>>)
                 = Get(cleaned_data[n], sFileName, <<>>)

(***************************************************************************)
(* C7  Plain-name cleaning.                                                *)
(***************************************************************************)
\* the maximal runs of word characters of s, as <<first, last>> positions
WordsOf(s) ==
  { ab \in (DOMAIN s) \X (DOMAIN s) :
      /\ ab[1] <= ab[2]
      /\ \A q \in ab[1]..ab[2] : IsWord(s[q])
      /\ WordBoundary(s, ab[1])
      /\ WordBoundary(s, ab[2] + 1) }

\* w is some shorter text written two or more times in a row
IsPower(w) ==
  \E k \in 1..(Len(w) - 1) :
     /\ Len(w) % k = 0
     /\ \A q \in 1..Len(w) : w[q] = w[((q - 1) % k) + 1]

\* s has a word that is a repeated token, or two equal words in a row
HasRepeatedWholeWord(s) ==
  \/ \E ab \in WordsOf(s) : IsPower(SubSeq(s, ab[1], ab[2]))
  \/ \E ab \in WordsOf(s) : \E cd \in WordsOf(s) :
        /\ ab[2] < cd[1]
        /\ \A q \in (ab[2] + 1)..(cd[1] - 1) : IsSpace(s[q])
        /\ SubSeq(s, ab[1], ab[2]) = SubSeq(s, cd[1], cd[2])

\* the final rows Scenario A of the specification expects
ScenarioARows ==
  << << <<sSection, tSTier>>, <<sCharacterName, tGoku>>,
        <<sValue, <<"1","0","0">> >>, <<sCategory, tSTier>> >>,
     << <<sSection, tSTier>>, <<sCharacterName, tLuffy>>,
        <<sValue, <<"5","0">> >>, <<sCategory, tSTier>> >> >>

\* C7 as stated: a name cell without a file token that has no repeated
\* whole word is the final Character Name unchanged, and Scenario A gives
\* the rows Goku/100 and Luffy/50 with Category "S Tier".
C7_PlainNameUnchanged ==
  Deduped =>
    /\ \A n \in DOMAIN all_data : \A e \in NameCells(n) :
          LET v == all_data[n][e][2]
          IN  ~Contains(v, sFileTok) /\ ~HasRepeatedWholeWord(v) =>
                Get(final_data[n], sCharacterName, <<>>) = v
    /\ doc = ScenarioA =>
          /\ Len(final_data) = 2
          /\ \A n \in 1..2 : \A f \in 1..4 :
                Get(final_data[n], ScenarioARows[n][f][1], <<>>)
                  = ScenarioARows[n][f][2]

(***************************************************************************)
(* C8  Rarity backfill.                                                    *)
(***************************************************************************)
\* the Rarity of a Tier
RarityOfTier ==
  [t \in TierNames |->
     CASE t = <<"S">> -> sLegendary
       [] t = <<"A">> -> sEpic
       [] t = <<"B">> -> sRare
       [] OTHER       -> sCommon]

\* C8 as stated: a row without Rarity gets the Rarity of its Tier when the
\* Tier is S, A, B, C or C- and none for any other Tier; a row with Rarity
\* keeps it.
C8_RarityFromExactTier ==
  Categorized =>
    \A n \in DOMAIN cleaned_data :
       LET row  == cleaned_data[n]
           tier == Get(row, sTier, <<>>)
           out  == categorized_data[n]
       IN  IF Has(row, sRarity)
             THEN Get(out, sRarity, <<>>) = Get(row, sRarity, <<>>)
           ELSE IF tier \in TierNames
             THEN Get(out, sRarity, <<>>) = RarityOfTier[tier]
           ELSE ~Has(out, sRarity)

\* C8 amended: the Tier is compared case-insensitively (upper-cased): a row
\* without Rarity gets Legendary for S or s, Epic for A or a, Rare for B or
\* b, Common for C, c, C- or c-, and no Rarity for any other Tier; a row
\* with Rarity keeps it whatever the Tier.
C8_RarityFromUpperTier ==
  Categorized =>
    \A n \in DOMAIN cleaned_data :
       LET row  == cleaned_data[n]
           tier == Upper(Get(row, sTier, <<>>))
           out  == categorized_data[n]
       IN  IF Has(row, sRarity)
             THEN Get(out, sRarity, <<>>) = Get(row, sRarity, <<>>)
           ELSE IF tier \in TierNames
             THEN Get(out, sRarity, <<>>) = RarityOfTier[tier]
           ELSE ~Has(out, sRarity)

\* C8 witness: Scenario D with a lower-case Tier, next to a row whose own
\* Rarity is kept: Tier "s" without Rarity gives Legendary and "S Tier"
C8_Witness ==
  /\ Categorized
  /\ \E n \in DOMAIN cleaned_data :
        /\ Get(cleaned_data[n], sTier, <<>>) = <<"s">>
        /\ ~Has(cleaned_data[n], sRarity)
        /\ Get(categorized_data[n], sRarity, <<>>) = sLegendary
        /\ Get(categorized_data[n], sCategory, <<>>) = <<"S">> \o sTierSfx

(***************************************************************************)
(* C9  Status backfill.                                                    *)
(***************************************************************************)
\* the status-like texts of a row: the values of the fields whose name is,
\* in lower case, "status"
StatusLikeTexts(row) ==
  {row[e][2] : e \in {x \in DOMAIN row : Lower(row[x][1]) = Lower(sStatus)}}

\* C9 as stated: a row without Status one of whose status-like texts
\* contains "stable" in any case gets Status "Stable"; a row with Status
\* keeps it.
C9_StatusBackfilled ==
  Categorized =>
    \A n \in DOMAIN cleaned_data :
       LET row == cleaned_data[n]
           out == categorized_data[n]
       IN  IF Has(row, sStatus)
             THEN Get(out, sStatus, <<>>) = Get(row, sStatus, <<>>)
             ELSE (\E t \in StatusLikeTexts(row) : Contains(Lower(t), sLowerStable))
                    => Get(out, sStatus, <<>>) = sStable

(***************************************************************************)
(* C10  Round-trip count.                                                  *)
(***************************************************************************)
\* row n of `rows` stems from retained row n: it carries its Section and
\* the text of its pass-through column "k"
SameRows(rows) ==
  /\ Len(rows) = Len(all_data)
  /\ \A n \in DOMAIN all_data :
        /\ Get(rows[n], sSection, <<>>) = Get(all_data[n], sSection, sUnknown)
        /\ Get(rows[n], tK, <<>>) = Get(all_data[n], tK, <<>>)
        /\ Has(rows[n], tK) <=> Has(all_data[n], tK)

\* C10: the cleaner, the classifier and the repair each return one row per
\* retained row, in the same order, and the writer is handed as many rows
\* as the extractor retained.
C10_RoundTripCount ==
  /\ Cleaned => SameRows(cleaned_data)
  /\ Categorized => SameRows(categorized_data)
  /\ Deduped => SameRows(final_data)
  /\ Extracted /\ result = "True" => SameRows(report)

\* C10 witness: a report of two different rows, in the order retained
C10_Witness ==
  /\ Extracted /\ result = "True"
  /\ Len(all_data) = 2
  /\ Has(all_data[1], tK) /\ ~Has(all_data[2], tK)
  /\ Has(report[1], tK) /\ ~Has(report[2], tK)

(***************************************************************************)
(* C11: the run that extracts nothing                                      *)
(***************************************************************************)
\* extract_all_tables reported a skipped table or a skipped row
SomethingSkipped ==
  \E k \in DOMAIN log : log[k].kind \in {"skip_table", "skip_row"}

\* none of the cleaner, the classifier, the repair and the writer has run
NothingProcessed ==
  /\ cleaned_data = <<>>
  /\ categorized_data = <<>>
  /\ final_data = <<>>
  /\ report = <<>>

\* C11: when extract_all_tables returns no row, main returns False without
\* calling the cleaner, the classifier, the repair or the writer, and no
\* report exists; when it returns at least one row, skipped tables and
\* skipped rows do not end the run: every stage runs over every retained
\* row, and main returns True exactly when the writer wrote the report.
C11_NoDataEndsRun ==
  /\ Extracted /\ all_data = <<>> =>
        /\ pc \in {"clean", "done"}
        /\ NothingProcessed
        /\ result \in {"running", "False"}
        /\ pc = "done" => result = "False"
  /\ Extracted /\ all_data # <<>> /\ pc = "done" =>
        /\ Len(cleaned_data) = Len(all_data)
        /\ Len(categorized_data) = Len(all_data)
        /\ Len(final_data) = Len(all_data)
        /\ result = "True" <=> report = final_data
        /\ result = "False" <=> report = <<>>

\* C11 witness: Scenario E, a document without any table has ended as a
\* failure
C11_Witness ==
  /\ Extracted /\ pc = "done"
  /\ TablePositions(doc) = <<>>
  /\ all_data = <<>> /\ result = "False" /\ NothingProcessed

\* a run with a skipped table and a skipped row that wrote its report
C11_RecoveredRun ==
  /\ Extracted /\ pc = "done" /\ result = "True"
  /\ SomethingSkipped
  /\ report # <<>>

(***************************************************************************)
(* C12: header normalization                                               *)
(***************************************************************************)
\* the mapping table of the specification, compared case-sensitively
CanonicalField(label) ==
  CASE label \in { <<"f">>, <<"g">> }          -> sRarity
    [] label \in { <<"h">>, <<"i">> }          -> sTier
    [] label = <<"j">>                         -> sStatus
    [] label \in { <<"l">>, <<"m">> }          -> sValue
    [] label \in { <<"a">>, <<"b">>, <<"c">> } -> sQuantity
    [] OTHER                                   -> label

\* the column labels of retained row n
LabelsOf(n) == Keys(all_data[n]) \ {sSection}

\* the text has "File:" and a later ".png"
HasPngToken(v) ==
  FirstAt(v, sFileTok, 1) # 0
    /\ FirstAt(v, sPngTok, FirstAt(v, sFileTok, 1) + 5) # 0

\* the fields a name column gives, by the text of its cell
NameFields(label, v) ==
  IF HasPngToken(v) THEN {sFileName, sCharacterName}
  ELSE IF FirstAt(v, sFileTok, 1) # 0 THEN {label}
  ELSE {sCharacterName}

\* C12 as stated: the mapping depends on the label alone and compares it
\* case-sensitively: exactly e, d and name give Character Name or File Name,
\* the listed letters give their field, and every other label, "E", "Name"
\* and "F" included, is a field of the cleaned row under its own name.
C12_CaseSensitiveLabels ==
  Cleaned =>
    \A n \in DOMAIN all_data : \A label \in LabelsOf(n) :
       IF label \in NameLabels
         THEN Has(cleaned_data[n], sCharacterName)
                \/ Has(cleaned_data[n], sFileName)
         ELSE Has(cleaned_data[n], CanonicalField(label))

\* C12 amended: a label that is e, d or name in any case is a name column
\* and gives File Name and Character Name when its cell has "File:" and a
\* later ".png", its own raw label when the cell has "File:" without a later
\* ".png", and Character Name otherwise; every other label gives the field
\* of the case-sensitive table, so "F" and "K" stay their own field names
\* while "E" and "Name" do not.  The cleaned row has Section and these
\* fields and no other.
C12_NameLabelsAnyCase ==
  Cleaned =>
    \A n \in DOMAIN all_data :
       Keys(cleaned_data[n])
         = {sSection}
             \cup UNION { IF Lower(label) \in NameLabels
                            THEN NameFields(label, Get(all_data[n], label, <<>>))
                            ELSE {CanonicalField(label)} :
                          label \in LabelsOf(n) }

\* C12 witness: a cleaned row whose column "F" kept its label and gave no
\* Rarity
C12_Witness ==
  /\ Cleaned
  /\ \E n \in DOMAIN all_data :
        /\ LabelsOf(n) = { <<"F">> }
        /\ Keys(cleaned_data[n]) = {sSection, <<"F">>}

\* a cleaned row whose column "Name" gave Character Name
C12_UpperNameLabel ==
  /\ Cleaned
  /\ \E n \in DOMAIN all_data :
        /\ LabelsOf(n) = {tName}
        /\ Keys(cleaned_data[n]) = {sSection, sCharacterName}

(***************************************************************************)
(* C13: Section and Category in every row                                  *)
(***************************************************************************)
\* the Section of the rows that stem from retained row n: the label printed
\* for its table, or "Unknown" when that label is empty
SectionOf(n) ==
  LET section == sanitize_input(PrintedSection(origin[n].table))
  IN  IF section # <<>> THEN section ELSE sUnknown

\* row n of `rows` has a Section, which is that of retained row n
CarriesSection(rows) ==
  \A n \in DOMAIN all_data :
     Has(rows[n], sSection) /\ Get(rows[n], sSection, <<>>) = SectionOf(n)

\* row n of `rows` has a Category, which is its Section when the row has
\* no name and no Tier
CarriesCategory(rows) ==
  \A n \in DOMAIN all_data :
     /\ Has(rows[n], sCategory)
     /\ Keys(rows[n]) \cap {sCharacterName, sFileName, sTier} = {} =>
          Get(rows[n], sCategory, <<>>) = SectionOf(n)

\* C13: every cleaned row has a Section and every row after classification,
\* after the repair and in the report has a Section and a Category, also
\* for tables with a column labelled "Section" or "Category", whose cell
\* text replaces neither.
C13_SectionAndCategory ==
  /\ Cleaned => CarriesSection(cleaned_data)
  /\ Categorized => CarriesSection(categorized_data)
                      /\ CarriesCategory(categorized_data)
  /\ Deduped => CarriesSection(final_data) /\ CarriesCategory(final_data)
  /\ Extracted /\ result = "True" =>
       CarriesSection(report) /\ CarriesCategory(report)

\* C13 witness: a report row from a table with the columns "Section" and
\* "Category" and an empty section label, whose Section and Category are
\* "Unknown"
C13_Witness ==
  /\ Extracted /\ result = "True"
  /\ table_headers(RowsOf(0)) = <<sSection, sCategory>>
  /\ PrintedSection(0) = <<>>
  /\ Len(report) = 1
  /\ Get(all_data[1], sCategory, <<>>) = tGoku
  /\ ~Has(all_data[1], sSection)
  /\ Get(report[1], sSection, <<>>) = sUnknown
  /\ Get(report[1], sCategory, <<>>) = sUnknown

(***************************************************************************)
(* C14: pass-through of the other columns                                  *)
(***************************************************************************)
\* the header labels and the cells of the table row retained row n was read
\* from
HeadersOf(n) == table_headers(RowsOf(origin[n].table))

CellsOf(n) == RowsOf(origin[n].table)[origin[n].idx + 1]

\* the field of column j of retained row n
FieldOf(n, j) == CanonicalField(sanitize_input(HeadersOf(n)[j]))

\* column j is the only column of retained row n with its field
OnlyWithField(n, j) ==
  \A j2 \in DOMAIN HeadersOf(n) : j2 # j => FieldOf(n, j2) # FieldOf(n, j)

\* the characters html.escape replaces by an entity
EntityChars == {"&", "<", ">", "\"", "'"}

\* the text with each of these characters replaced by its entity, cut to
\* the length limit with "..." appended when longer, without surrounding
\* whitespace
EscapedText(t) ==
  LET escaped == HtmlEscape(t)
  IN  Strip(IF Len(escaped) > MaxInputLen
              THEN SubSeq(escaped, 1, MaxInputLen) \o sEllipsis
              ELSE escaped)

C14_Truncated ==
  /\ Deduped
  /\ HeadersOf(1) = <<tK>>
  /\ Len(cell_value(CellsOf(1)[1])) = MaxInputLen + 1
  /\ Get(final_data[1], tK, <<>>) = LongText(MaxInputLen) \o sEllipsis

(***************************************************************************)
(* C15: the second repair after classification                             *)
(***************************************************************************)
\* the rows the pipeline would give with the repair of
\* remove_duplicate_prefixes applied to the cleaned rows before
\* determine_categories and not after it
RepairedFirst == determine_categories(remove_duplicate_prefixes(cleaned_data))

\* C15: the rows after remove_duplicate_prefixes are the rows of a pipeline
\* that repairs once before classification: the call after
\* determine_categories changes no Character Name, and every final row has
\* the Character Name and the Category that classification after the repair
\* gives.
C15_SecondRepairEquivalent ==
  Deduped =>
    \A n \in DOMAIN all_data :
       /\ Get(final_data[n], sCharacterName, <<>>)
            = Get(cleaned_data[n], sCharacterName, <<>>)
       /\ Get(final_data[n], sCharacterName, <<>>)
            = Get(RepairedFirst[n], sCharacterName, <<>>)
       /\ Get(final_data[n], sCategory, <<>>)
            = Get(RepairedFirst[n], sCategory, <<>>)

\* the call after classification changed a Character Name: "Goku Goku" is
\* "Goku" in the final row only
C15_NameChanged ==
  /\ Deduped
  /\ Len(all_data) = 1
  /\ Get(cleaned_data[1], sCharacterName, <<>>) = tGoku \o <<" ">> \o tGoku
  /\ Get(final_data[1], sCharacterName, <<>>) = tGoku

\* the final row is named "Star" and its Category is not "Star Units": the
\* keyword appeared in the name after classification
C15_CategoryStale ==
  /\ Deduped
  /\ Len(all_data) = 1
  /\ Get(final_data[1], sCharacterName, <<>>) = sStar
  /\ Get(final_data[1], sCategory, <<>>) = tSTier
  /\ Get(RepairedFirst[1], sCategory, <<>>) = sStarUnits

\* the Category alone differs from that of the pipeline that repairs first
C15_CategoryEquivalent ==
  Deduped =>
    \A n \in DOMAIN all_data :
       Get(final_data[n], sCategory, <<>>)
         = Get(RepairedFirst[n], sCategory, <<>>)

====
